---- MODULE Spec2Model ----
(***************************************************************************)
(* A model of dsew_community_profile/delphi_dsew_community_profile/pull.py *)
(* : the overheader date parser (DatasetTimes.from_header), the per-report *)
(* extraction (Dataset) and the batch step (fetch_listing,                 *)
(* download_and_parse, fetch_new_reports).                                 *)
(***************************************************************************)
EXTENDS Integers, Sequences, FiniteSets, TLC

VARIABLES
    header,        \* SpecHeader: the overheader handed to from_header
    hpublish,      \* SpecHeader: the publish_date handed to from_header
    hres,          \* SpecHeader: what from_header produced ("pending" before the call)
    pc,            \* where fetch_new_reports stands ("Dataset": Dataset() called on its own)
    err,           \* the exception that ended the call, "none" while there is none
    raisedIn,      \* the function that raised it
    cache,         \* the input cache: the cached_filename paths that exist
    requests,      \* every URL requests.get was called on, in order
    params,        \* params['indicator']
    remote,        \* the attachments the listing request returns
    listing,       \* fetch_listing's result
    idx,           \* download_and_parse: index of the next item of listing
    datasets,      \* download_and_parse: (level, signal) -> list of tables
    ret,           \* fetch_new_reports: the mapping it returns
    config,        \* Dataset.__init__'s config argument
    dpc,           \* where Dataset.__init__ stands
    publish_date,  \* Dataset.publish_date
    dfs,           \* Dataset.dfs: (level, signal) -> table
    times,         \* Dataset.times: category -> DatasetTimes
    sidx,          \* index in TRANSFORMS of the sheet being processed
    oidx,          \* number of overheader cells of that sheet already processed
    seen,          \* history: the DatasetTimes parsed from the accepted overheaders of the report
    own,           \* history: sheet index -> the DatasetTimes parsed from that sheet's overheaders
    rejected,      \* history: the DatasetTimes whose conflict aborted the report, else NoTimes
    run,           \* number of the current run of fetch_new_reports over the input cache
    written        \* history: the cache paths written, in order, over all runs

hvars == <<header, hpublish, hres>>
dvars == <<config, dpc, publish_date, dfs, times, sidx, oidx, seen, own, rejected>>
bvars == <<pc, err, raisedIn, cache, requests>>
lvars == <<params, remote, listing, idx, datasets, ret>>
rvars == <<run, written>>
vars == <<hvars, dvars, bvars, lvars, rvars>>

(***************************************************************************)
(* Python values                                                           *)
(***************************************************************************)

\* t[i] of a Python tuple (0-based).
Py(t, i) == t[i + 1]

\* t[a:b] of a Python tuple.
PySlice(t, a, b) == SubSeq(t, a + 1, b)

\* Truth value of a Python str.
Truthy(s) == s # ""

\* str.lower() on the qualifier words that occur in the overheaders.
Lower(s) ==
    CASE s = "LAST" -> "last"
      [] s = "Last" -> "last"
      [] s = "PREVIOUS" -> "previous"
      [] s = "Previous" -> "previous"
      [] s = "TWO WEEKS AGO" -> "two weeks ago"
      [] OTHER -> s

(***************************************************************************)
(* datetime.date                                                           *)
(***************************************************************************)

Date(y, m, d) == [year |-> y, month |-> m, day |-> d]

\* Placeholder carried by a result that raised.
NoDate == Date(0, 0, 0)

IsLeap(y) == (y % 4 = 0 /\ y % 100 # 0) \/ y % 400 = 0

DaysInMonth(y, m) ==
    IF m \in {4, 6, 9, 11} THEN 30
    ELSE IF m = 2 THEN (IF IsLeap(y) THEN 29 ELSE 28)
    ELSE 31

\* a < b on datetime.date
DateLT(a, b) ==
    \/ a.year < b.year
    \/ a.year = b.year /\ a.month < b.month
    \/ a.year = b.year /\ a.month = b.month /\ a.day < b.day

DateLE(a, b) == a = b \/ DateLT(a, b)

\* strptime's "%B": the full month name, 0 when the text is no month name.
MonthNames ==
    <<"January", "February", "March", "April", "May", "June", "July",
      "August", "September", "October", "November", "December">>

MonthNumeric(month) ==
    IF \E i \in 1..12 : MonthNames[i] = month
    THEN CHOOSE i \in 1..12 : MonthNames[i] = month
    ELSE 0

\* strptime's "%d" on the day digits the headers of the model carry.
DayNumeric(day) ==
    CASE day = "0" -> 0
      [] day = "3" -> 3
      [] day = "13" -> 13
      [] day = "17" -> 17
      [] day = "19" -> 19
      [] day = "20" -> 20
      [] day = "23" -> 23
      [] day = "24" -> 24
      [] day = "26" -> 26
      [] day = "29" -> 29
      [] day = "30" -> 30
      [] day = "31" -> 31
      [] OTHER -> 0

(***************************************************************************)
(* Results: a returned value or the exception raised                       *)
(***************************************************************************)

Ok(v) == [err |-> "none", val |-> v]
Raise(e, v) == [err |-> e, val |-> v]

(***************************************************************************)
(* Overheaders.  A header cell is a record of the parts of its text:       *)
(*   isstr   FALSE for an empty (NaN) cell                                 *)
(*   prefix  "TESTING:", "VIRAL (RT-PCR) LAB TESTING:" or another label    *)
(*   body    "range": "<qual> WEEK (<m1> <d1>-<m2> <d2>[, Test Volume      *)
(*                     <m3> <d3>-<m4> <d4>])"                              *)
(*           "pct":   "% CHANGE FROM PREVIOUS WEEK"                        *)
(*           "demo":  "DEMOGRAPHIC DATA"                                   *)
(*           "tbd":   "<qual> WEEK (TBD)", off the template                *)
(*   a month that the text omits is ""                                     *)
(***************************************************************************)

Hdr(prefix, body, qual, m1, d1, m2, d2, vol, m3, d3, m4, d4) ==
    [isstr |-> TRUE, prefix |-> prefix, body |-> body, qual |-> qual,
     m1 |-> m1, d1 |-> d1, m2 |-> m2, d2 |-> d2,
     vol |-> vol, m3 |-> m3, d3 |-> d3, m4 |-> m4, d4 |-> d4]

NaNCell == [Hdr("", "demo", "", "", "", "", "", FALSE, "", "", "", "") EXCEPT !.isstr = FALSE]

\* RE_DATE_FROM_HEADER.match(header)
RE_DATE_FROM_HEADER_match(h) ==
    /\ h.isstr
    /\ h.prefix \in {"TESTING:", "VIRAL (RT-PCR) LAB TESTING:"}
    /\ h.body = "range"

\* RE_DATE_FROM_HEADER.findall(header)[0]: the ten groups, "" for a group that
\* took no part in the match.  Group 5 is the text of the whole second range.
RE_DATE_FROM_HEADER_findall(h) ==
    <<h.qual, h.m1, h.d1, h.m2, h.d2,
      IF h.vol THEN "<m3 d3-m4 d4>" ELSE "",
      IF h.vol THEN h.m3 ELSE "",
      IF h.vol THEN h.d3 ELSE "",
      IF h.vol THEN h.m4 ELSE "",
      IF h.vol THEN h.d4 ELSE "">>

\* The year of the year-boundary rule.
InferYearBug(month_numeric, pdate) ==
    IF month_numeric >= pdate.month
    THEN pdate.year - 1
    ELSE pdate.year

InferYear(month_numeric, pdate) ==
    IF month_numeric > pdate.month
    THEN pdate.year - 1
    ELSE pdate.year

\* The month text as_date uses: the end day's, else the start day's.
MonthOf(sub_result) ==
    IF Truthy(Py(sub_result, 2)) THEN Py(sub_result, 2) ELSE Py(sub_result, 0)

\* DatasetTimes.from_header.as_date
as_date(sub_result, pdate) ==
    LET month == MonthOf(sub_result)
        month_numeric == MonthNumeric(month)
        day == DayNumeric(Py(sub_result, 3))
        year == InferYear(month_numeric, pdate)
    IN  IF ~Truthy(month) THEN Raise("AssertionError", NoDate)
        ELSE IF month_numeric = 0 THEN Raise("ValueError", NoDate)
        ELSE IF day < 1 \/ day > DaysInMonth(year, month_numeric)
             THEN Raise("ValueError", NoDate)
        ELSE Ok(Date(year, month_numeric, day))

DatasetTimes(column, positivity_reference_date, total_reference_date) ==
    [column |-> column,
     positivity_reference_date |-> positivity_reference_date,
     total_reference_date |-> total_reference_date]

NoTimes == DatasetTimes("", NoDate, NoDate)

\* The test that decides whether the header carries a second range.
HasSecondRange(findall_result) == Truthy(Py(findall_result, 6))

\* DatasetTimes.from_header
from_header(h, pdate) ==
    IF ~RE_DATE_FROM_HEADER_match(h) THEN Raise("AssertionError", NoTimes)
    ELSE
    LET findall_result == RE_DATE_FROM_HEADER_findall(h)
        column == Lower(Py(findall_result, 0))
        positivity == as_date(PySlice(findall_result, 1, 5), pdate)
        total == IF HasSecondRange(findall_result)
                 THEN as_date(PySlice(findall_result, 6, 10), pdate)
                 ELSE positivity
    IN  IF positivity.err # "none" THEN Raise(positivity.err, NoTimes)
        ELSE IF total.err # "none" THEN Raise(total.err, NoTimes)
        ELSE Ok(DatasetTimes(column, positivity.val, total.val))

(***************************************************************************)
(* Python dicts: functions on the set of their keys                        *)
(***************************************************************************)

EmptyDict == [k \in {} |-> 0]

\* d[k] = v
Put(d, k, v) == [x \in (DOMAIN d) \cup {k} |-> IF x = k THEN v ELSE d[x]]

\* pd.concat of a list of tables: their rows, in list order.
RECURSIVE concat(_)
concat(tables) ==
    IF tables = <<>> THEN <<>> ELSE Head(tables) \o concat(Tail(tables))

(***************************************************************************)
(* constants.py (not among the source files): the configured signals and   *)
(* sheets, as the specification describes them                             *)
(***************************************************************************)

SIGNALS == <<"total", "positivity">>

TRANSFORMS ==
    <<[name |-> "States", level |-> "state"],
      [name |-> "Counties", level |-> "county"]>>

\* sheet.geo_id_select(df).apply(sheet.geo_id_apply) on one raw identifier.
GeoIdApply(sheet, x) ==
    IF sheet.name = "States"
    THEN (CASE x = "AL" -> "al" [] x = "AK" -> "ak" [] OTHER -> x)
    ELSE x

(***************************************************************************)
(* An input file: the name of a listed report and its parts                *)
(*   digits  the run of eight digits in the name, "" when it has none      *)
(*   ext     the suffix of the name                                        *)
(***************************************************************************)

Filename(digits, ext) == [digits |-> digits, ext |-> ext]

\* str.endswith("xlsx")
EndsWithXlsx(filename) == filename.ext = "xlsx"

\* int(x) for x in the three groups of RE_DATE_FROM_FILENAME.
DigitGroups(digits) ==
    CASE digits = "20211104" -> <<2021, 11, 4>>
      [] digits = "20211110" -> <<2021, 11, 10>>
      [] digits = "20211117" -> <<2021, 11, 17>>
      [] digits = "20210103" -> <<2021, 1, 3>>
      [] digits = "20211345" -> <<2021, 13, 45>>
      [] OTHER -> <<0, 0, 0>>

\* RE_DATE_FROM_FILENAME.findall(report_filename)
RE_DATE_FROM_FILENAME_findall(filename) ==
    IF filename.digits # "" /\ EndsWithXlsx(filename)
    THEN <<DigitGroups(filename.digits)>>
    ELSE <<>>

\* A no-match answered with a default date instead of an error.
parse_publish_date_default(filename) ==
    LET found == RE_DATE_FROM_FILENAME_findall(filename)
    IN  IF found = <<>> THEN Ok(Date(2021, 11, 4))
        ELSE Ok(Date(found[1][1], found[1][2], found[1][3]))

\* Dataset.parse_publish_date
parse_publish_date(filename) ==
    LET found == RE_DATE_FROM_FILENAME_findall(filename)
    IN  IF found = <<>> THEN Raise("IndexError", NoDate)
        ELSE LET y == found[1][1]
                 m == found[1][2]
                 d == found[1][3]
             IN  IF y < 1 \/ m < 1 \/ m > 12 \/ d < 1 \/ d > DaysInMonth(y, m)
                 THEN Raise("ValueError", NoDate)
                 ELSE Ok(Date(y, m, d))

\* as_cached_filename: the path {input_cache}/{assetId}--{filename}
as_cached_filename(el) == <<el.assetId, el.filename>>

\* DOWNLOAD_ATTACHMENT.format(assetId=..., filename=quote_as_url(...))
AttachmentUrl(el) == [asset |-> el.assetId, name |-> el.filename]

(***************************************************************************)
(* Dataset._parse_times_for_sheet                                          *)
(***************************************************************************)

\* Dataset.skip_overheader
skip_overheader(h) ==
    ~ ( /\ h.isstr
        /\ h.prefix \in {"TESTING:", "VIRAL (RT-PCR) LAB TESTING:"}
        /\ h.body \in {"range", "tbd"} )

\* Equality on two of the three fields only.
DatasetTimes_eq_no_total(a, b) ==
    /\ a.column = b.column
    /\ a.positivity_reference_date = b.positivity_reference_date

\* DatasetTimes.__eq__
DatasetTimes_eq(a, b) ==
    /\ a.column = b.column
    /\ a.positivity_reference_date = b.positivity_reference_date
    /\ a.total_reference_date = b.total_reference_date

\* One pass of the loop over the overheaders: the new self.times, or the error.
times_step(t, h, pdate) ==
    IF skip_overheader(h) THEN Ok(t)
    ELSE LET r == from_header(h, pdate)
             dt == r.val
         IN  IF r.err # "none" THEN Raise(r.err, t)
             ELSE IF dt.column \in DOMAIN t
                  THEN (IF DatasetTimes_eq(t[dt.column], dt)
                        THEN Ok(t)
                        ELSE Raise("AssertionError", t))
                  ELSE Ok(Put(t, dt.column, dt))

\* The assertion that closes _parse_times_for_sheet.
times_check(t) == Cardinality(DOMAIN t) = 2

(***************************************************************************)
(* Dataset._parse_sheet                                                    *)
(* A detail header is a record of the parts of its text:                   *)
(*   label  the text before " - "                                          *)
(*   qual   the word between "- " and " 7 days" ("" when there is none)    *)
(*   tail   "7 days":        "<label> - <qual> 7 days (may be ...)"        *)
(*          "7 days - ages": "<label> - <qual> 7 days - ages <5"           *)
(*          "change":        "<label> - absolute change (may be ...)"      *)
(***************************************************************************)

Col(label, qual, tail) == [label |-> label, qual |-> qual, tail |-> tail]

\* Dataset.retain_header
retain_header(h) ==
    /\ h.label \in {"Total NAATs", "NAAT positivity rate",
                    "Total RT-PCR diagnostic tests",
                    "Viral (RT-PCR) lab test positivity rate"}
    /\ h.tail \in {"7 days", "7 days - ages"}
    /\ h.tail # "7 days - ages"

\* RE_COLUMN_FROM_HEADER.findall(h)[0]
RE_COLUMN_FROM_HEADER_findall0(h) == h.qual

\* h.lower().find(sig) >= 0
LowerFinds(h, sig) ==
    \/ sig = "total" /\ h.label \in {"Total NAATs", "Total RT-PCR diagnostic tests"}
    \/ sig = "positivity" /\ h.label \in {"NAAT positivity rate",
                                          "Viral (RT-PCR) lab test positivity rate"}

\* pd.to_datetime on a datetime.date: midnight of that day.
to_datetime(d) == [date |-> d, hour |-> 0]

\* DatasetTimes.__getitem__
DatasetTimes_getitem(dt, key) ==
    IF key = "positivity" THEN Ok(dt.positivity_reference_date)
    ELSE IF key = "total" THEN Ok(dt.total_reference_date)
    ELSE Raise("ValueError", NoDate)

\* The indices of the retained columns, in column order.
RECURSIVE select_from(_, _)
select_from(df, c) ==
    IF c > Len(df.columns) THEN <<>>
    ELSE (IF retain_header(df.columns[c]) THEN <<c>> ELSE <<>>)
         \o select_from(df, c + 1)

\* [s for s in select if s[-1].find(sig) >= 0]
RECURSIVE sig_select_of(_, _, _)
sig_select_of(df, select, sig) ==
    IF select = <<>> THEN <<>>
    ELSE (IF LowerFinds(df.columns[Head(select)], sig) THEN <<Head(select)>> ELSE <<>>)
         \o sig_select_of(df, Tail(select), sig)

\* The frame built for one matching header.  val is the fraction num/den; src
\* is history (sheet index, header and raw value the row was built from).
frame_of(t, sheet_i, df, c, sig) ==
    LET sheet == TRANSFORMS[sheet_i]
        h == df.columns[c]
        stamp == DatasetTimes_getitem(t[RE_COLUMN_FROM_HEADER_findall0(h)], sig)
    IN  [r \in 1..Len(df.index) |->
            [geo_id |-> GeoIdApply(sheet, df.index[r]),
             timestamp |-> to_datetime(stamp.val),
             val |-> [num |-> df.data[c][r], den |-> 1],
             se |-> "None",
             sample_size |-> "None",
             src |-> [sheet |-> sheet_i, qual |-> h.qual, sig |-> sig,
                      raw |-> df.data[c][r]]]]

RECURSIVE frames_of(_, _, _, _, _)
frames_of(t, sheet_i, df, sig_select, sig) ==
    IF sig_select = <<>> THEN <<>>
    ELSE <<frame_of(t, sheet_i, df, Head(sig_select), sig)>>
         \o frames_of(t, sheet_i, df, Tail(sig_select), sig)

\* The first error the frames of one signal raise, "none" when they raise none.
RECURSIVE frames_error(_, _, _, _)
frames_error(t, df, sig_select, sig) ==
    IF sig_select = <<>> THEN "none"
    ELSE LET q == RE_COLUMN_FROM_HEADER_findall0(df.columns[Head(sig_select)])
         IN  IF q \notin DOMAIN t THEN "KeyError"
             ELSE IF DatasetTimes_getitem(t[q], sig).err # "none"
                  THEN DatasetTimes_getitem(t[q], sig).err
             ELSE frames_error(t, df, Tail(sig_select), sig)

\* The loop over SIGNALS, from the k-th signal on.
RECURSIVE signals_loop(_, _, _, _, _, _)
signals_loop(d, t, sheet_i, df, select, k) ==
    IF k > Len(SIGNALS) THEN Ok(d)
    ELSE LET sig == SIGNALS[k]
             sig_select == sig_select_of(df, select, sig)
         IN  IF sig_select = <<>> THEN Raise("AssertionError", d)
             ELSE IF frames_error(t, df, sig_select, sig) # "none"
                  THEN Raise(frames_error(t, df, sig_select, sig), d)
             ELSE signals_loop(
                    Put(d, <<TRANSFORMS[sheet_i].level, sig>>,
                        concat(frames_of(t, sheet_i, df, sig_select, sig))),
                    t, sheet_i, df, select, k + 1)

Div7(val) == [num |-> val.num, den |-> val.den * 7]

\* Every table of the level divided, not the total table alone.
scale_total_all(d, level) ==
    [k \in DOMAIN d |->
        IF k[1] = level
        THEN [i \in DOMAIN d[k] |-> [d[k][i] EXCEPT !.val = Div7(d[k][i].val)]]
        ELSE d[k]]

\* self.dfs[(sheet.level, "total")]["val"] /= 7
scale_total(d, level) ==
    [k \in DOMAIN d |->
        IF k = <<level, "total">>
        THEN [i \in DOMAIN d[k] |-> [d[k][i] EXCEPT !.val = Div7(d[k][i].val)]]
        ELSE d[k]]

\* Dataset._parse_sheet on the frame read from the sheet: the new self.dfs.
parse_sheet(d, t, sheet_i, df) ==
    LET looped == signals_loop(d, t, sheet_i, df, select_from(df, 1), 1)
    IN  IF looped.err # "none" THEN looped
        ELSE Ok(scale_total(looped.val, TRANSFORMS[sheet_i].level))

(***************************************************************************)
(* What the workbooks hold.  The report "any" stands for an arbitrary      *)
(* workbook: its overheader cells and its frames are drawn as they are     *)
(* read.  The reports "a1".."a5" are the files the listing of the batch    *)
(* runs offers, each with a fixed workbook.                                *)
(***************************************************************************)

MaxOverheaders == 3

H_LAST == Hdr("TESTING:", "range", "LAST", "October", "24", "", "30",
              TRUE, "October", "20", "", "26")
H_LAST_VIRAL == Hdr("VIRAL (RT-PCR) LAB TESTING:", "range", "Last", "October", "24", "", "30",
                    TRUE, "October", "20", "", "26")
H_LAST_OTHER == Hdr("TESTING:", "range", "LAST", "October", "24", "", "30",
                    TRUE, "October", "20", "", "24")
H_PREVIOUS == Hdr("TESTING:", "range", "PREVIOUS", "October", "17", "", "23",
                  TRUE, "October", "13", "", "19")
H_TWO == Hdr("TESTING:", "range", "TWO WEEKS AGO", "October", "13", "", "19",
             FALSE, "", "", "", "")
H_PCT == Hdr("TESTING:", "pct", "", "", "", "", "", FALSE, "", "", "", "")
H_TBD == Hdr("TESTING:", "tbd", "LAST", "", "", "", "", FALSE, "", "", "", "")

OverheaderPool ==
    {H_LAST, H_LAST_VIRAL, H_LAST_OTHER, H_PREVIOUS, H_TWO, H_PCT, H_TBD, NaNCell}

TotL == Col("Total NAATs", "last", "7 days")
TotP == Col("Total NAATs", "previous", "7 days")
TotRtL == Col("Total RT-PCR diagnostic tests", "last", "7 days")
PosL == Col("NAAT positivity rate", "last", "7 days")
PosP == Col("NAAT positivity rate", "previous", "7 days")
PosTwo == Col("NAAT positivity rate", "two weeks ago", "7 days")
ViralPosL == Col("Viral (RT-PCR) lab test positivity rate", "last", "7 days")
PosAges == Col("NAAT positivity rate", "last", "7 days - ages")
PosChange == Col("NAAT positivity rate", "", "change")
Population == Col("Population", "", "change")

ColumnLayouts ==
    {<<TotL, PosL, PosAges, PosChange>>,
     <<TotL, TotP, PosL, PosP>>,
     <<PosL, PosP>>,
     <<TotRtL, TotL, ViralPosL>>,
     <<TotL, PosTwo>>,
     <<Population, TotL>>}

\* The raw values a sheet can hold: per column, one value per row.
SheetData ==
    {<<<<14, 3>>, <<0, 70>>, <<14, 3>>, <<0, 70>>>>,
     <<<<0, 70>>, <<14, 3>>, <<5, 5>>, <<14, 3>>>>}

\* The raw geographic identifiers of the rows of a sheet.
SheetIndex(sname) ==
    IF sname = "States" THEN <<"AL", "AK">> ELSE <<"01001", "01003">>

Frame(sname, columns, data) ==
    [index |-> SheetIndex(sname), columns |-> columns, data |-> data]

FixedRow(asset, sname) ==
    CASE asset = "a1" /\ sname = "States" -> <<NaNCell, H_LAST, H_PREVIOUS, H_PCT>>
      [] asset = "a1" /\ sname = "Counties" -> <<H_LAST_VIRAL, H_PREVIOUS>>
      [] asset = "a2" /\ sname = "States" -> <<H_LAST_OTHER, H_PREVIOUS>>
      [] asset = "a2" /\ sname = "Counties" -> <<H_PCT>>
      [] asset = "a3" /\ sname = "States" -> <<H_LAST, H_PREVIOUS, H_LAST_OTHER>>
      [] OTHER -> <<>>

FixedFrame(asset, sname) ==
    CASE asset = "a1" /\ sname = "States" ->
            Frame(sname, <<TotL, TotP, PosL, PosP>>,
                  <<<<14, 3>>, <<0, 70>>, <<14, 3>>, <<0, 70>>>>)
      [] asset = "a2" /\ sname = "States" ->
            Frame(sname, <<TotRtL, TotL, ViralPosL>>,
                  <<<<0, 70>>, <<14, 3>>, <<0, 70>>>>)
      [] OTHER ->
            Frame(sname, <<TotL, PosL, PosAges, PosChange>>,
                  <<<<14, 3>>, <<0, 70>>, <<14, 3>>, <<0, 70>>>>)

\* The cells that can be the (k+1)-th overheader of the sheet.
OverheaderCells(asset, sname, k) ==
    IF asset = "any"
    THEN (IF k < MaxOverheaders THEN OverheaderPool ELSE {})
    ELSE (IF k < Len(FixedRow(asset, sname)) THEN {FixedRow(asset, sname)[k + 1]} ELSE {})

\* The overheader row can end after k cells.
RowEnds(asset, sname, k) ==
    IF asset = "any" THEN TRUE ELSE k = Len(FixedRow(asset, sname))

\* The frames pd.read_excel(header=1) can return for the sheet.
SheetFrames(asset, sname) ==
    IF asset = "any"
    THEN {Frame(sname, cols, data) :
            cols \in ColumnLayouts, data \in SheetData}
    ELSE {FixedFrame(asset, sname)}

(***************************************************************************)
(* Dataset.__init__, step by step                                          *)
(***************************************************************************)

NoConfig == [assetId |-> "", filename |-> Filename("", ""),
             cached_filename |-> <<>>, publish_date |-> NoDate]

DatasetIdle ==
    /\ config = NoConfig
    /\ dpc = "idle"
    /\ publish_date = NoDate
    /\ dfs = EmptyDict
    /\ times = EmptyDict
    /\ sidx = 0
    /\ oidx = 0
    /\ seen = {}
    /\ own = EmptyDict
    /\ rejected = NoTimes

\* An exception leaves Dataset.__init__ and, in a batch, the batch step too.
DatasetRaises(e) ==
    /\ dpc' = "raised"
    /\ err' = e
    /\ raisedIn' = "Dataset"
    /\ pc' = IF pc = "Dataset" THEN pc ELSE "raised"

\* self.publish_date = self.parse_publish_date(config['filename'])
DatasetPublishDate ==
    /\ dpc = "start"
    /\ LET r == parse_publish_date(config.filename)
       IN  IF r.err = "none"
           THEN /\ publish_date' = r.val
                /\ dpc' = "dated"
                /\ UNCHANGED <<pc, err, raisedIn>>
           ELSE /\ DatasetRaises(r.err)
                /\ UNCHANGED publish_date
    /\ UNCHANGED <<rvars, lvars, hvars, config, dfs, times, sidx, oidx, seen, own, rejected,
                   cache, requests>>

\* if not os.path.exists(cached_filename): requests.get, then write the file.
\* The request can fail, and then nothing is written.
DatasetDownload ==
    /\ dpc = "dated"
    /\ IF config.cached_filename \in cache
       THEN /\ dpc' = "cached"
            /\ UNCHANGED <<cache, written, requests, pc, err, raisedIn>>
       ELSE /\ requests' = Append(requests, AttachmentUrl(config))
            /\ \/ /\ cache' = cache \cup {config.cached_filename}
                  /\ written' = Append(written, config.cached_filename)
                  /\ dpc' = "cached"
                  /\ UNCHANGED <<pc, err, raisedIn>>
               \/ /\ DatasetRaises("ConnectionError")
                  /\ UNCHANGED <<cache, written>>
    /\ UNCHANGED <<run, lvars, hvars, config, publish_date, dfs, times, sidx, oidx, seen, own,
                   rejected>>

\* self.workbook = pd.ExcelFile(...); self.dfs = {}; self.times = {}
DatasetOpen ==
    /\ dpc = "cached"
    /\ dfs' = EmptyDict
    /\ times' = EmptyDict
    /\ sidx' = 1
    /\ oidx' = 0
    /\ own' = [i \in 1..Len(TRANSFORMS) |-> {}]
    /\ dpc' = "times"
    /\ UNCHANGED <<rvars, lvars, hvars, bvars, config, publish_date, seen, rejected>>

\* _parse_times_for_sheet: one overheader of the current sheet.
DatasetOverheader ==
    /\ dpc = "times"
    /\ \E h \in OverheaderCells(config.assetId, TRANSFORMS[sidx].name, oidx) :
        LET r == times_step(times, h, publish_date)
            parsed == from_header(h, publish_date)
        IN  IF r.err = "none"
            THEN /\ times' = r.val
                 /\ oidx' = oidx + 1
                 /\ IF skip_overheader(h)
                    THEN UNCHANGED <<seen, own>>
                    ELSE /\ seen' = seen \cup {parsed.val}
                         /\ own' = [own EXCEPT ![sidx] = @ \cup {parsed.val}]
                 /\ UNCHANGED <<dpc, pc, err, raisedIn, rejected>>
            ELSE /\ DatasetRaises(r.err)
                 /\ rejected' = IF parsed.err = "none" THEN parsed.val ELSE NoTimes
                 /\ UNCHANGED <<times, oidx, seen, own>>
    /\ UNCHANGED <<rvars, lvars, hvars, config, publish_date, dfs, sidx, cache, requests>>

\* _parse_times_for_sheet: the closing assertion, after the last overheader.
DatasetTimesCheck ==
    /\ dpc = "times"
    /\ RowEnds(config.assetId, TRANSFORMS[sidx].name, oidx)
    /\ IF times_check(times)
       THEN /\ dpc' = "sheet"
            /\ UNCHANGED <<pc, err, raisedIn>>
       ELSE DatasetRaises("AssertionError")
    /\ UNCHANGED <<rvars, lvars, hvars, config, publish_date, dfs, times, sidx, oidx, seen, own,
                   rejected, cache, requests>>

\* _parse_sheet, then the next sheet or the end of __init__.
DatasetSheet ==
    /\ dpc = "sheet"
    /\ \E df \in SheetFrames(config.assetId, TRANSFORMS[sidx].name) :
        LET r == parse_sheet(dfs, times, sidx, df)
        IN  IF r.err = "none"
            THEN /\ dfs' = r.val
                 /\ IF sidx < Len(TRANSFORMS)
                    THEN /\ sidx' = sidx + 1
                         /\ oidx' = 0
                         /\ dpc' = "times"
                    ELSE /\ dpc' = "constructed"
                         /\ UNCHANGED <<sidx, oidx>>
                 /\ UNCHANGED <<pc, err, raisedIn>>
            ELSE /\ DatasetRaises(r.err)
                 /\ UNCHANGED <<dfs, sidx, oidx>>
    /\ UNCHANGED <<rvars, lvars, hvars, config, publish_date, times, seen, own, rejected,
                   cache, requests>>

DatasetNext ==
    \/ DatasetPublishDate
    \/ DatasetDownload
    \/ DatasetOpen
    \/ DatasetOverheader
    \/ DatasetTimesCheck
    \/ DatasetSheet

\* Dataset(config) called on its own, on any file name, with or without the
\* file in the input cache.
DatasetFiles ==
    {[assetId |-> "any", filename |-> Filename(d, e)] :
        d \in {"20211104", "20210103", "20211345", ""}, e \in {"xlsx", "pdf"}}

\* The first run, nothing written to the input cache yet.
FirstRun ==
    /\ run = 1
    /\ written = <<>>

HeaderIdle ==
    /\ header = NaNCell
    /\ hpublish = NoDate
    /\ hres = Raise("idle", NoTimes)

DInit ==
    /\ HeaderIdle
    /\ FirstRun
    /\ pc = "Dataset"
    /\ err = "none"
    /\ raisedIn = "none"
    /\ requests = <<>>
    /\ params = [reports |-> [kind |-> "all", start |-> NoDate, end |-> NoDate],
                 export_start_date |-> NoDate]
    /\ remote = <<>>
    /\ listing = <<>>
    /\ idx = 0
    /\ datasets = EmptyDict
    /\ ret = EmptyDict
    /\ \E el \in DatasetFiles :
        /\ config = [assetId |-> el.assetId, filename |-> el.filename,
                     cached_filename |-> as_cached_filename(el),
                     publish_date |-> NoDate]
        /\ cache \in {{}, {as_cached_filename(el)}}
    /\ dpc = "start"
    /\ publish_date = NoDate
    /\ dfs = EmptyDict
    /\ times = EmptyDict
    /\ sidx = 0
    /\ oidx = 0
    /\ seen = {}
    /\ own = EmptyDict
    /\ rejected = NoTimes

SpecDataset == DInit /\ [][DatasetNext]_vars

(***************************************************************************)
(* fetch_listing, download_and_parse, fetch_new_reports                    *)
(***************************************************************************)

MaxFiles == 2

RemoteFiles ==
    {[assetId |-> "a1", filename |-> Filename("20211104", "xlsx")],
     [assetId |-> "a2", filename |-> Filename("20211110", "xlsx")],
     [assetId |-> "a3", filename |-> Filename("20211117", "xlsx")],
     [assetId |-> "a4", filename |-> Filename("20211104", "pdf")],
     [assetId |-> "a5", filename |-> Filename("", "xlsx")]}

\* The attachment listings the server can return: no file listed twice.
RemoteListings ==
    {s \in UNION {[1..n -> RemoteFiles] : n \in 0..MaxFiles} :
        \A i, j \in DOMAIN s : i # j => s[i] # s[j]}

\* params['indicator']: reports is "new", "all" or a range of publish dates
\* "start--end"; export_start_date is NoDate when the key is missing.
ParamsChoices ==
    {[reports |-> r, export_start_date |-> e] :
        r \in {[kind |-> "new", start |-> NoDate, end |-> NoDate],
               [kind |-> "all", start |-> NoDate, end |-> NoDate],
               [kind |-> "range", start |-> Date(2021, 11, 5), end |-> Date(2021, 11, 30)]},
        e \in {NoDate, Date(2021, 11, 4)}}

\* requests.get(DOWNLOAD_LISTING)
ListingUrl == [asset |-> "", name |-> Filename("", "json")]

\* The listing entry with its cache path and publish date.
listing_entry(el) ==
    [assetId |-> el.assetId, filename |-> el.filename,
     cached_filename |-> as_cached_filename(el),
     publish_date |-> parse_publish_date(el.filename).val]

\* reports_keeps without the look into the input cache.
reports_keeps_all(p, el, cached) ==
    IF p.reports.kind = "range"
    THEN DateLE(p.reports.start, el.publish_date)
         /\ DateLE(el.publish_date, p.reports.end)
    ELSE TRUE

\* The 'new' / date-range selection of fetch_listing.
reports_keeps(p, el, cached) ==
    IF p.reports.kind = "new" THEN el.cached_filename \notin cached
    ELSE IF p.reports.kind = "range"
         THEN DateLE(p.reports.start, el.publish_date)
              /\ DateLE(el.publish_date, p.reports.end)
    ELSE TRUE

\* The export_start_date trim of fetch_listing.
export_keeps(export_start_date, pdate) == DateLT(export_start_date, pdate)

\* fetch_listing: the listing, or the error of the first name without a date.
fetch_listing(p, attachments, cached) ==
    LET xlsx == SelectSeq(attachments, LAMBDA el : EndsWithXlsx(el.filename))
        bad == {i \in DOMAIN xlsx : parse_publish_date(xlsx[i].filename).err # "none"}
        entries == [i \in DOMAIN xlsx |-> listing_entry(xlsx[i])]
        selected == SelectSeq(entries, LAMBDA el : reports_keeps(p, el, cached))
        trimmed == IF p.export_start_date # NoDate
                   THEN SelectSeq(selected,
                            LAMBDA el : export_keeps(p.export_start_date, el.publish_date))
                   ELSE selected
    IN  IF bad # {}
        THEN Raise(parse_publish_date(
                     xlsx[CHOOSE i \in bad : \A j \in bad : i <= j].filename).err, <<>>)
        ELSE Ok(trimmed)

\* datasets[sig].append(df) for every (sig, df) of d.dfs
merge_dfs(ds, d) ==
    [k \in (DOMAIN ds) \cup (DOMAIN d) |->
        IF k \in DOMAIN d
        THEN (IF k \in DOMAIN ds THEN Append(ds[k], d[k]) ELSE <<d[k]>>)
        ELSE ds[k]]

\* ret[sig] = pd.concat(lst) for every (sig, lst) of datasets
collate(ds) == [k \in DOMAIN ds |-> concat(ds[k])]

\* GeoMapper.replace_geocode(state table, 'state_code', 'nation'): every row
\* moved to the nation (the aggregation itself belongs to the geomapper).
replace_geocode(table) ==
    [i \in DOMAIN table |-> [table[i] EXCEPT !.geo_id = "us"]]

\* The loop that adds nation from state, from the k-th signal on.
RECURSIVE add_nation(_, _)
add_nation(r, k) ==
    IF k > Len(SIGNALS) THEN Ok(r)
    ELSE IF <<"state", SIGNALS[k]>> \notin DOMAIN r THEN Raise("KeyError", r)
    ELSE add_nation(Put(r, <<"nation", SIGNALS[k]>>,
                        replace_geocode(r[<<"state", SIGNALS[k]>>])), k + 1)

\* listing = fetch_listing(params)
FetchListing ==
    /\ pc = "fetch_listing"
    /\ requests' = Append(requests, ListingUrl)
    /\ LET r == fetch_listing(params, remote, cache)
       IN  IF r.err = "none"
           THEN /\ listing' = r.val
                /\ pc' = "download_and_parse"
                /\ UNCHANGED <<err, raisedIn>>
           ELSE /\ pc' = "raised"
                /\ err' = r.err
                /\ raisedIn' = "fetch_listing"
                /\ UNCHANGED listing
    /\ idx' = 1
    /\ datasets' = EmptyDict
    /\ UNCHANGED <<rvars, hvars, dvars, cache, params, remote, ret>>

\* download_and_parse: d = Dataset(item, logger=logger) is entered.
StartItem ==
    /\ pc = "download_and_parse"
    /\ dpc = "idle"
    /\ idx <= Len(listing)
    /\ config' = listing[idx]
    /\ dpc' = "start"
    /\ publish_date' = NoDate
    /\ dfs' = EmptyDict
    /\ times' = EmptyDict
    /\ sidx' = 0
    /\ oidx' = 0
    /\ seen' = {}
    /\ own' = EmptyDict
    /\ rejected' = NoTimes
    /\ UNCHANGED <<rvars, hvars, bvars, params, remote, listing, idx, datasets, ret>>

\* download_and_parse: the tables of the finished Dataset join datasets.
MergeItem ==
    /\ pc = "download_and_parse"
    /\ dpc = "constructed"
    /\ datasets' = merge_dfs(datasets, dfs)
    /\ idx' = idx + 1
    /\ dpc' = "idle"
    /\ UNCHANGED <<rvars, hvars, bvars, params, remote, listing, ret,
                   config, publish_date, dfs, times, sidx, oidx, seen, own, rejected>>

\* fetch_new_reports after download_and_parse: collate, add nation, return.
Collate ==
    /\ pc = "download_and_parse"
    /\ dpc = "idle"
    /\ idx > Len(listing)
    /\ LET r == add_nation(collate(datasets), 1)
       IN  IF r.err = "none"
           THEN /\ ret' = r.val
                /\ pc' = "returned"
                /\ UNCHANGED <<err, raisedIn>>
           ELSE /\ pc' = "raised"
                /\ err' = r.err
                /\ raisedIn' = "fetch_new_reports"
                /\ UNCHANGED ret
    /\ UNCHANGED <<rvars, hvars, dvars, cache, requests, params, remote, listing, idx, datasets>>

BatchIdle ==
    /\ pc = "idle"
    /\ err = "none"
    /\ raisedIn = "none"
    /\ cache = {}
    /\ requests = <<>>
    /\ params = [reports |-> [kind |-> "all", start |-> NoDate, end |-> NoDate],
                 export_start_date |-> NoDate]
    /\ remote = <<>>
    /\ listing = <<>>
    /\ idx = 0
    /\ datasets = EmptyDict
    /\ ret = EmptyDict

Init ==
    /\ HeaderIdle
    /\ FirstRun
    /\ DatasetIdle
    /\ pc = "fetch_listing"
    /\ err = "none"
    /\ raisedIn = "none"
    /\ requests = <<>>
    /\ params \in ParamsChoices
    /\ remote \in RemoteListings
    /\ cache \in {{}, {as_cached_filename(CHOOSE el \in RemoteFiles : el.assetId = "a1")}}
    /\ listing = <<>>
    /\ idx = 0
    /\ datasets = EmptyDict
    /\ ret = EmptyDict

Next ==
    \/ FetchListing
    \/ StartItem
    \/ DatasetPublishDate
    \/ DatasetDownload
    \/ DatasetOpen
    \/ DatasetOverheader
    \/ DatasetTimesCheck
    \/ DatasetSheet
    \/ MergeItem
    \/ Collate

Spec == Init /\ [][Next]_vars

(***************************************************************************)
(* SpecRuns: runs of fetch_new_reports with reports = 'new' over one cache *)
(***************************************************************************)

\* Runs of the indicator over the same input cache.
MaxRuns == 2

\* params['indicator']['reports'] == 'new' in every run.
RunsInit ==
    /\ Init
    /\ params.reports.kind = "new"

\* The indicator runs again: a new process and a new listing of the server;
\* of the last run only the files of the input cache remain.
NewRun ==
    /\ pc \in {"returned", "raised"}
    /\ run < MaxRuns
    /\ run' = run + 1
    /\ pc' = "fetch_listing"
    /\ err' = "none"
    /\ raisedIn' = "none"
    /\ requests' = <<>>
    /\ remote' \in RemoteListings
    /\ listing' = <<>>
    /\ idx' = 0
    /\ datasets' = EmptyDict
    /\ ret' = EmptyDict
    /\ config' = NoConfig
    /\ dpc' = "idle"
    /\ publish_date' = NoDate
    /\ dfs' = EmptyDict
    /\ times' = EmptyDict
    /\ sidx' = 0
    /\ oidx' = 0
    /\ seen' = {}
    /\ own' = EmptyDict
    /\ rejected' = NoTimes
    /\ UNCHANGED <<hvars, cache, written, params>>

RunsNext ==
    \/ Next
    \/ NewRun

SpecRuns == RunsInit /\ [][RunsNext]_vars

(***************************************************************************)
(* SpecHeader: from_header on one header and one publish date              *)
(***************************************************************************)

\* Month texts the headers of SpecHeader carry ("" = omitted, "Octember" = no month).
HeaderMonths == {"", "February", "October", "December", "Octember"}
EndDays == {"0", "26", "29", "30", "31"}
HeaderQualifiers == {"LAST", "Previous"}

HeaderPublishDates ==
    {Date(2021, 1, 3), Date(2021, 11, 4), Date(2021, 10, 27), Date(2020, 3, 1)}

TemplateHeaders ==
    {Hdr("TESTING:", "range", q, m1, "24", m2, d2, FALSE, "", "", "", "") :
        q \in HeaderQualifiers, m1 \in HeaderMonths, m2 \in HeaderMonths, d2 \in EndDays}
    \cup
    {Hdr("TESTING:", "range", "LAST", m1, "24", m2, d2, TRUE, m3, "20", m4, d4) :
        m1 \in {"", "October"}, m2 \in {"", "December"}, d2 \in {"30", "31"},
        m3 \in HeaderMonths, m4 \in HeaderMonths, d4 \in EndDays}

OffTemplateHeaders ==
    {Hdr("TESTING:", "tbd", "LAST", "", "", "", "", FALSE, "", "", "", "")}

HInit ==
    /\ header \in TemplateHeaders \cup OffTemplateHeaders
    /\ hpublish \in HeaderPublishDates
    /\ hres = Raise("pending", NoTimes)
    /\ DatasetIdle
    /\ BatchIdle
    /\ FirstRun

FromHeader ==
    /\ hres.err = "pending"
    /\ hres' = from_header(header, hpublish)
    /\ UNCHANGED <<header, hpublish, dvars, bvars, lvars, rvars>>

HNext == FromHeader

SpecHeader == HInit /\ [][HNext]_vars

(***************************************************************************)
(* Properties of DatasetTimes.from_header (SpecHeader)                     *)
(***************************************************************************)

\* C1 (year inference): whenever from_header returns, the positivity date
\* carries the month of the first range's end day (its start day's month when
\* the end day has none), the total date carries the month of the second
\* range's end day (or start day) when the parser read a second range, and
\* each of the two dates has year = publish year - 1 when its month is
\* greater than the publish month and year = publish year otherwise.
C1_YearInference ==
    hres.err = "none" =>
        LET pos == hres.val.positivity_reference_date
            tot == hres.val.total_reference_date
            used == MonthNumeric(IF header.m2 # "" THEN header.m2 ELSE header.m1)
        IN  /\ pos.month = used
            /\ pos.year = IF used > hpublish.month
                          THEN hpublish.year - 1 ELSE hpublish.year
            /\ tot.year = IF tot.month > hpublish.month
                          THEN hpublish.year - 1 ELSE hpublish.year
            /\ (header.vol /\ header.m3 # "" =>
                    tot.month = MonthNumeric(IF header.m4 # "" THEN header.m4
                                             ELSE header.m3))

\* A header with two ranges whose first range falls in the previous year
\* (its month is after the publish month) and whose second does not.
C1_Witness ==
    /\ hres.err = "none"
    /\ header.vol
    /\ header.m2 = ""
    /\ hres.val.positivity_reference_date.year = hpublish.year - 1
    /\ hres.val.total_reference_date.year = hpublish.year

\* C2 (dual reference dates): whenever from_header returns, the positivity
\* date is the one resolved from the end day of the first range; if the
\* header carries a second ("Test Volume") range, with or without a month on
\* its start day, the total date has the day of that range's end day and the
\* month that range names; if it carries none, the total date equals the
\* positivity date.
C2_DualReferenceDates ==
    hres.err = "none" =>
        LET pos == hres.val.positivity_reference_date
            tot == hres.val.total_reference_date
        IN  /\ pos.day = DayNumeric(header.d2)
            /\ pos.month = MonthNumeric(IF header.m2 # "" THEN header.m2 ELSE header.m1)
            /\ IF header.vol
               THEN /\ tot.day = DayNumeric(header.d4)
                    /\ (header.m3 # "" \/ header.m4 # "" =>
                            tot.month = MonthNumeric(IF header.m4 # "" THEN header.m4
                                                     ELSE header.m3))
               ELSE tot = pos

\* C10 (reference date is before publish date): whenever from_header
\* returns, neither reference date is later than the publish date, so a
\* report that the export_start_date trim of fetch_listing drops holds no
\* reference date after export_start_date.
C10_ReferenceNotAfterPublish ==
    hres.err = "none" =>
        LET pos == hres.val.positivity_reference_date
            tot == hres.val.total_reference_date
        IN  /\ DateLE(pos, hpublish)
            /\ DateLE(tot, hpublish)
            /\ \A e \in HeaderPublishDates :
                  ~export_keeps(e, hpublish) => ~DateLT(e, pos) /\ ~DateLT(e, tot)

(***************************************************************************)
(* Properties of Dataset (SpecDataset)                                     *)
(***************************************************************************)

\* C3 (per-sheet category count): _parse_times_for_sheet has completed for a
\* sheet only if the relevant overheaders of that sheet itself yielded
\* exactly two distinct categories.
C3_PerSheetCategoryCount ==
    \A i \in DOMAIN own :
        (i < sidx \/ (i = sidx /\ dpc \in {"sheet", "constructed"}))
            => Cardinality({dt.column : dt \in own[i]}) = 2

\* C4 (reference-date consistency): at every point, self.times holds for the
\* category of every overheader accepted so far an entry equal, on column,
\* positivity date and total date, to the DatasetTimes parsed from that
\* overheader; and an overheader whose DatasetTimes differs from the entry of
\* its category has aborted the extraction with the entry left as it was.
C4_ReferenceDateConsistency ==
    /\ \A s \in seen :
          /\ s.column \in DOMAIN times
          /\ times[s.column].column = s.column
          /\ times[s.column].positivity_reference_date = s.positivity_reference_date
          /\ times[s.column].total_reference_date = s.total_reference_date
    /\ \A c \in DOMAIN times : times[c] \in seen
    /\ rejected # NoTimes =>
          /\ dpc = "raised"
          /\ err = "AssertionError"
          /\ rejected.column \in DOMAIN times
          /\ times[rejected.column] # rejected
          /\ rejected \notin seen

\* An overheader of the second sheet conflicts with the entry that the first
\* sheet recorded for its category.
C4_Witness ==
    /\ rejected # NoTimes
    /\ sidx = 2
    /\ Cardinality(seen) = 2

\* C5 (timestamp resolution): every row of the table of signal s built from
\* a header with qualifier q carries the s-kind reference date of a
\* DatasetTimes that the overheaders of the row's own sheet produced for
\* category q.
C5_TimestampResolution ==
    \A k \in DOMAIN dfs : \A i \in DOMAIN dfs[k] :
        LET row == dfs[k][i]
        IN  /\ row.src.sig = k[2]
            /\ \E dt \in own[row.src.sheet] :
                  /\ dt.column = row.src.qual
                  /\ row.timestamp =
                        to_datetime(IF k[2] = "positivity"
                                    THEN dt.positivity_reference_date
                                    ELSE dt.total_reference_date)

\* C6 (unit normalization): in every (level, "total") table each row's val is
\* the raw column value divided by 7 once, and in every other table each
\* row's val is the raw column value.
C6_UnitNormalization ==
    \A k \in DOMAIN dfs : \A i \in DOMAIN dfs[k] :
        dfs[k][i].val = [num |-> dfs[k][i].src.raw,
                         den |-> IF k[2] = "total" THEN 7 ELSE 1]

\* Both sheets extracted, the state sheet with two matching headers for the
\* total signal (two rows each).
C6_Witness ==
    /\ dpc = "constructed"
    /\ <<"county", "total">> \in DOMAIN dfs
    /\ <<"state", "total">> \in DOMAIN dfs
    /\ Len(dfs[<<"state", "total">>]) = 4
    /\ Len(dfs[<<"state", "positivity">>]) = 2

\* C9 (publish date first): for a file name without the date pattern the
\* first step of Dataset() raises, and that step issues no request, writes no
\* cache file and reads no sheet; and any step that issues a request, writes
\* the cache or reads a sheet is taken with publish_date already set to the
\* date of the file name, and leaves it as it is.
C9_PublishDateFirst ==
    [][ /\ (dpc = "start" /\ RE_DATE_FROM_FILENAME_findall(config.filename) = <<>>)
            => /\ dpc' = "raised"
               /\ err' = "IndexError"
               /\ UNCHANGED <<requests, cache, dfs, times, sidx, oidx, seen, own>>
        /\ (requests' # requests \/ cache' # cache \/ dfs' # dfs \/ times' # times
                \/ sidx' # sidx \/ oidx' # oidx \/ own' # own)
            => /\ dpc # "start"
               /\ publish_date' = publish_date
               /\ parse_publish_date(config.filename) = Ok(publish_date) ]_vars

\* Dataset() has raised on an undated name of a file that is not cached.
C9_Witness ==
    /\ dpc = "raised"
    /\ err = "IndexError"
    /\ config.filename.ext = "xlsx"
    /\ cache = {}
    /\ requests = <<>>

(***************************************************************************)
(* Properties of fetch_new_reports (Spec)                                  *)
(***************************************************************************)

\* C7 (batch isolation): a structural (schema-drift) error raised while one
\* file of the batch is extracted does not discard the tables already
\* extracted from the other files: once such tables exist, the batch step
\* never ends with that error raised out of it.
C7_BatchIsolation ==
    ~ ( /\ pc = "raised"
        /\ raisedIn = "Dataset"
        /\ err \in {"AssertionError", "KeyError"}
        /\ datasets # EmptyDict )

\* C8 (derived geography): a batch step that got its listing and in which no
\* file's extraction failed returns a mapping that holds, for each signal s,
\* the ("state", s) table and a ("nation", s) table that is the ("state", s)
\* table passed through the geo-remapping.
C8_DerivedGeography ==
    (pc \in {"returned", "raised"} /\ raisedIn \notin {"Dataset", "fetch_listing"}) =>
        /\ pc = "returned"
        /\ \A k \in DOMAIN SIGNALS :
              /\ <<"state", SIGNALS[k]>> \in DOMAIN ret
              /\ <<"nation", SIGNALS[k]>> \in DOMAIN ret
              /\ ret[<<"nation", SIGNALS[k]>>] = replace_geocode(ret[<<"state", SIGNALS[k]>>])

(***************************************************************************)
(* C11: cache and 'new'-mode selection across runs                         *)
(***************************************************************************)

\* The report of the server's listing is in the listing fetch_listing returns.
Selects(ls, el) == \E j \in DOMAIN ls : ls[j].cached_filename = as_cached_filename(el)

\* The step in which fetch_listing returns its listing.
ListingReturned == pc = "fetch_listing" /\ pc' = "download_and_parse"

\* The steps of Dataset.__init__ around the cache file: it is written only by
\* the step that retrieved the report and found no file at its cache path,
\* the workbook is opened only with the file in place, no path is written
\* twice over all runs, and no file leaves the cache.
CacheWriteOrder ==
    /\ cache \subseteq cache'
    /\ cache' # cache =>
          /\ dpc = "dated" /\ dpc' = "cached"
          /\ config.cached_filename \notin cache
          /\ cache' = cache \cup {config.cached_filename}
          /\ requests' = Append(requests, AttachmentUrl(config))
          /\ written' = Append(written, config.cached_filename)
    /\ (dpc = "cached" /\ dpc' = "times") => config.cached_filename \in cache
    /\ \A i, j \in DOMAIN written' : written'[i] = written'[j] => i = j
    /\ \A i \in DOMAIN written' : written'[i] \in cache'

\* No report whose cache file was written is selected by a later listing.
NeverSelectedAgain ==
    ListingReturned =>
        \A j \in DOMAIN listing' :
            /\ listing'[j].cached_filename \notin cache
            /\ \A i \in DOMAIN written : written[i] # listing'[j].cached_filename

\* C11 as stated: over runs with reports = 'new' and one input cache,
\* fetch_listing selects a report (an xlsx attachment of the listing) iff no
\* file is at its cache path; Dataset writes the cache file after the
\* retrieval and before it opens the workbook; no report is retrieved twice;
\* and a report whose cache file was written is never selected again.
C11_SelectedIffNotCached ==
    [][ /\ ListingReturned =>
              \A i \in DOMAIN remote :
                  EndsWithXlsx(remote[i].filename) =>
                      (Selects(listing', remote[i])
                          <=> as_cached_filename(remote[i]) \notin cache)
        /\ CacheWriteOrder
        /\ NeverSelectedAgain ]_vars

\* C11, amended: the same, except that fetch_listing selects an xlsx
\* attachment iff no file is at its cache path and, where export_start_date
\* is configured, its publish date is after export_start_date.
C11_CacheAndNewSelection ==
    [][ /\ ListingReturned =>
              \A i \in DOMAIN remote :
                  EndsWithXlsx(remote[i].filename) =>
                      (Selects(listing', remote[i])
                          <=> /\ as_cached_filename(remote[i]) \notin cache
                              /\ params.export_start_date # NoDate =>
                                    DateLT(params.export_start_date,
                                           parse_publish_date(remote[i].filename).val))
        /\ CacheWriteOrder
        /\ NeverSelectedAgain ]_vars

\* C11 witness: in a later run the server still lists a report whose
\* extraction aborted in an earlier run after its file was written to the
\* cache, and the listing of this run leaves it out while selecting another.
C11_Witness ==
    /\ run > 1
    /\ pc = "download_and_parse"
    /\ params.reports.kind = "new"
    /\ listing # <<>>
    /\ \E i \in DOMAIN remote :
          /\ remote[i].assetId = "a3"
          /\ \E k \in DOMAIN written : written[k] = as_cached_filename(remote[i])
          /\ ~Selects(listing, remote[i])

====
